---------------------------- MODULE Spec2Model ----------------------------
(***************************************************************************)
(* Generation-stepping engine of GameOfLife (class GameOfLife of           *)
(* inc/GameOfLife.hpp, src/GameOfLife.cpp): the two host images and the    *)
(* two device images, the switchImages flag that designates the front      *)
(* buffer, the rule table, the CPU and the OpenCL backend and the          *)
(* pause / single-generation / backend switches.                           *)
(*                                                                         *)
(* An image is a function from byte offsets 0 .. 4*W*H-1 to bytes: four    *)
(* bytes per cell, as getState and setState address them.                  *)
(***************************************************************************)
EXTENDS Integers, Sequences, FiniteSets

\* ------------------------------------------------------------ constants

ALIVE == 255
DEAD == 0

\* Largest batch count (generationsPerCopyEvent) the model configures.
MaxBatch == 2
\* Cap on the generation counter: nextGeneration is not called past it.
MaxGen == 2
\* Longest rule spec string handed to setRule under SpecRule.
MaxRuleLen == 4
\* Most live cells spawned on the boards of more than 9 cells under SpecCount.
MaxLive == 3
\* Cap on the generation counter under SpecGlider.
MaxGliderGen == 4

\* ------------------------------------------------------------ state

VARIABLES
    imageSize,               \* <<width, height>>
    imageA, imageB,          \* host images
    deviceImageA, deviceImageB,
    pendingRead,             \* the image a non-blocking read has yet to deliver, or NULL
    switchImages,            \* TRUE: A is front, FALSE: B is front
    generations,
    generationsPerCopyEvent,
    CPUMode, paused, singleGen, readSync,
    clamp,                   \* kernel built with -D CLAMP
    rules, humanRules,
    deviceLost,              \* the OpenCL device has become unavailable
    aborted,                 \* a failed assert() has ended the process
    spawned,                 \* history: the live cells setup spawned
    latest,                  \* history: the most recently computed generation
    last,                    \* history: the last call and what it returned
    pauseRun, pauseSnap      \* history: consecutive switchPause calls

vars == <<imageSize, imageA, imageB, deviceImageA, deviceImageB, pendingRead,
          switchImages,
          generations, generationsPerCopyEvent, CPUMode, paused, singleGen,
          readSync, clamp, rules, humanRules, deviceLost, aborted, spawned,
          latest, last, pauseRun, pauseSnap>>

gridVars == <<imageSize, imageA, imageB, deviceImageA, deviceImageB, pendingRead,
              switchImages, generations, spawned, latest>>
modeVars == <<generationsPerCopyEvent, CPUMode, paused, singleGen, readSync, clamp>>
ruleVars == <<rules, humanRules>>
faultVars == <<deviceLost, aborted>>

\* A pointer to no image.
NULL == <<>>

getWidth == imageSize[1]
getHeight == imageSize[2]

imageSizeBytes == 4 * getWidth * getHeight

\* ------------------------------------------------------------ cells

\* getState reading the last of the cell's four bytes.
getStateLastByte(x, y, image) == image[(4*x+3) + (4*getWidth*y)]

\* getState reading the second of the cell's four bytes.
getStateSecondByte(x, y, image) == image[(4*x+1) + (4*getWidth*y)]

\* getState with a row stride of one cell.
getStateUnitStride(x, y, image) == image[4*x + (4*y)]

getState(x, y, image) == image[4*x + (4*getWidth*y)]

\* setState with the row stride taken from the height.
setStateByHeight(x, y, state, image) ==
    [image EXCEPT ![4*x + (4*getHeight*y)] = state,
                  ![(4*x+1) + (4*getHeight*y)] = state,
                  ![(4*x+2) + (4*getHeight*y)] = state,
                  ![(4*x+3) + (4*getHeight*y)] = 1]

\* setState with the marker byte first and the three channels after it.
setStateMarkerFirst(x, y, state, image) ==
    [image EXCEPT ![4*x + (4*getWidth*y)] = 1,
                  ![(4*x+1) + (4*getWidth*y)] = state,
                  ![(4*x+2) + (4*getWidth*y)] = state,
                  ![(4*x+3) + (4*getWidth*y)] = state]

setState(x, y, state, image) ==
    [image EXCEPT ![4*x + (4*getWidth*y)] = state,
                  ![(4*x+1) + (4*getWidth*y)] = state,
                  ![(4*x+2) + (4*getWidth*y)] = state,
                  ![(4*x+3) + (4*getWidth*y)] = 1]

\* The intensity of cell (x, y), read without the packing: what the claims
\* speak of when they speak of a cell.
CellAt(x, y, image) == image[4 * (y * getWidth + x)]

\* ------------------------------------------------------------ rules

RuleDigits == <<"0", "1", "2", "3", "4", "5", "6", "7", "8">>
Separator == "/"

NoCounts == [n \in 0..8 |-> FALSE]
EmptyTable == [survive |-> NoCounts, birth |-> NoCounts]

IsRuleDigit(c) == \E i \in 1..9 : RuleDigits[i] = c
DigitValue(c) == (CHOOSE i \in 1..9 : RuleDigits[i] = c) - 1

InvalidRuleError == [ok |-> FALSE, table |-> EmptyTable]

setMask(t, inBirth, n) ==
    IF inBirth THEN [t EXCEPT !.birth[n] = TRUE]
               ELSE [t EXCEPT !.survive[n] = TRUE]

RECURSIVE parseFrom(_, _, _, _)
parseFrom(s, i, inBirth, t) ==
    IF i > Len(s)
    THEN IF inBirth THEN [ok |-> TRUE, table |-> t] ELSE InvalidRuleError
    ELSE IF s[i] = Separator
    THEN IF inBirth THEN InvalidRuleError ELSE parseFrom(s, i + 1, TRUE, t)
    ELSE IF IsRuleDigit(s[i])
    THEN parseFrom(s, i + 1, inBirth, setMask(t, inBirth, DigitValue(s[i])))
    ELSE InvalidRuleError

parse(rule_spec) == parseFrom(rule_spec, 1, FALSE, EmptyTable)

RECURSIVE digitsOf(_, _)
digitsOf(mask, n) ==
    IF n > 8 THEN <<>>
    ELSE (IF mask[n] THEN <<RuleDigits[n + 1]>> ELSE <<>>) \o digitsOf(mask, n + 1)

\* encode that starts at neighbour count 1.
encodeFromOne(t) == digitsOf(t.survive, 1) \o <<Separator>> \o digitsOf(t.birth, 1)

encode(t) == digitsOf(t.survive, 0) \o <<Separator>> \o digitsOf(t.birth, 0)

getRule == humanRules

apply(state, n) ==
    IF state # DEAD
    THEN (IF rules.survive[n] THEN ALIVE ELSE DEAD)
    ELSE (IF rules.birth[n] THEN ALIVE ELSE DEAD)


\* ------------------------------------------------------------ neighbours

\* One neighbour offset's contribution under the configured boundary policy.
neighbour(x, y, dx, dy, image) ==
    LET nx == x + dx
        ny == y + dy
    IN  IF clamp
        THEN IF nx >= 0 /\ nx < getWidth /\ ny >= 0 /\ ny < getHeight
             THEN (IF getState(nx, ny, image) # DEAD THEN 1 ELSE 0)
             ELSE 0
        ELSE IF getState((nx + getWidth) % getWidth,
                         (ny + getHeight) % getHeight, image) # DEAD
             THEN 1 ELSE 0

getNumberOfNeighbours(x, y, image) ==
      neighbour(x, y, -1, -1, image) + neighbour(x, y, 0, -1, image)
    + neighbour(x, y, 1, -1, image)  + neighbour(x, y, -1, 0, image)
    + neighbour(x, y, 1, 0, image)   + neighbour(x, y, -1, 1, image)
    + neighbour(x, y, 0, 1, image)   + neighbour(x, y, 1, 1, image)

\* ------------------------------------------------------------ CPU backend

\* Cells i, i+1, ... of back in row-major order, each from front alone.
RECURSIVE cpuCells(_, _, _)
cpuCells(i, front, back) ==
    IF i >= getWidth * getHeight THEN back
    ELSE LET x == i % getWidth
             y == i \div getWidth
             n == getNumberOfNeighbours(x, y, front)
         IN  cpuCells(i + 1, front,
                      setState(x, y, apply(getState(x, y, front), n), back))

\* SequentialBackend.step: the back buffer after one generation.
step(front, back) == cpuCells(0, front, back)

\* ------------------------------------------------------------ OpenCL backend

Offsets == {d \in (-1..1) \X (-1..1) : d # <<0, 0>>}

\* The kernel's own neighbour count of work-item (x, y).
kernelNeighbours(x, y, in) ==
    Cardinality({d \in Offsets :
        LET nx == x + d[1]
            ny == y + d[2]
        IN  IF clamp
            THEN /\ nx \in 0 .. getWidth - 1
                 /\ ny \in 0 .. getHeight - 1
                 /\ in[4 * (ny * getWidth + nx)] # DEAD
            ELSE in[4 * (((ny + getHeight) % getHeight) * getWidth
                         + ((nx + getWidth) % getWidth))] # DEAD})

\* One kernel launch: every work-item writes its own pixel of the output
\* image from the input image alone.
kernel(in) ==
    [p \in 0 .. imageSizeBytes - 1 |->
        LET c == p \div 4
        IN  IF p % 4 = 3 THEN 1
            ELSE apply(in[4 * c],
                       kernelNeighbours(c % getWidth, c \div getWidth, in))]

\* n launches alternating the two device images: <<last written, the other>>.
RECURSIVE pingPong(_, _)
pingPong(pair, n) ==
    IF n = 0 THEN pair
    ELSE pingPong(<<kernel(pair[1]), pair[1]>>, n - 1)

\* ParallelBackend.submit_steps: front is uploaded once, step_count launches
\* run on the device, the last generation is what the host reads back.
submit_steps(front, scratch, step_count) == pingPong(<<front, scratch>>, step_count)

\* ------------------------------------------------------------ scheduler

\* getGenerationsPerCopyEvent with the test of CPUMode inverted.
getGenerationsPerCopyEventInverted ==
    IF CPUMode THEN generationsPerCopyEvent ELSE 1

\* getGenerationsPerCopyEvent that returns 0 on the CPU backend.
getGenerationsPerCopyEventZero ==
    IF CPUMode THEN 0 ELSE generationsPerCopyEvent

getGenerationsPerCopyEvent ==
    IF CPUMode THEN 1 ELSE generationsPerCopyEvent

getImage == imageA

isPaused == paused
isCPUMode == CPUMode
isSingleGeneration == singleGen
getGenerations == generations

\* The front image taken to be imageA whatever switchImages says.
FrontImageAlwaysA == imageA

\* switchImages ? imageA : imageB, and the other one.
FrontImage == IF switchImages THEN imageA ELSE imageB
BackImage == IF switchImages THEN imageB ELSE imageA
FrontDeviceImage == IF switchImages THEN deviceImageA ELSE deviceImageB
BackDeviceImage == IF switchImages THEN deviceImageB ELSE deviceImageA

NoCall == [op |-> "none", ret |-> 0, front |-> <<>>, back |-> <<>>,
           n |-> 0, cpu |-> FALSE, single |-> FALSE, gen |-> 0, sw |-> TRUE,
           x |-> 0, y |-> 0]
NoSnap == <<FALSE, FALSE, 0>>

\* History kept by every call but switchPause.
NotPause == pauseRun' = 0 /\ pauseSnap' = NoSnap

\* ------------------------------------------------------------ setup

\* Board sizes and starting populations (sets of live cells <<x, y>>) the
\* model sets up.
Sizes == {<<4, 3>>}
Populations ==
    { {<<0, 0>>},
      {<<0, 1>>, <<1, 1>>, <<2, 1>>},
      {<<1, 0>>, <<2, 0>>, <<1, 1>>, <<2, 1>>, <<3, 2>>} }

\* What freshly allocated, never written memory may hold.
Uninitialised == {205}
rawImage(size, byte) == [p \in 0 .. 4 * size[1] * size[2] - 1 |-> byte]

\* setState of GameOfLife.cpp: image[x + width*y] = state stores one int, the
\* four bytes of cell (x, y), low byte first.
storeInt(x, y, state, image) ==
    LET at == 4 * (x + (getWidth * y))
    IN  [image EXCEPT ![at] = state % 256, ![at + 1] = 0,
                      ![at + 2] = 0, ![at + 3] = 0]

\* spawnPopulation: every cell is set, x outermost, to 1 (live) or 0.
RECURSIVE spawnCells(_, _, _)
spawnCells(i, live, image) ==
    IF i >= getWidth * getHeight THEN image
    ELSE LET x == i \div getHeight
             y == i % getHeight
         IN  spawnCells(i + 1, live,
                 storeInt(x, y, IF <<x, y>> \in live THEN 1 ELSE 0, image))

\* The rule specs setRule is called with under Spec.
Life == <<"2", "3", "/", "3">>
SomeRuleSpecs == {Life, <<"/", "2">>, <<"9", "/", "3">>}

\* The state after the constructor, the setters and setup(): a board of the
\* given size spawned with the live cells, the batch count, the clamp build
\* option and the rule spec.
Setup(size, live, byte, batch, c, _rule) ==
    /\ imageSize = size
    /\ imageA = spawnCells(0, live, rawImage(size, byte))
    /\ imageB = rawImage(size, byte)
    /\ deviceImageB = rawImage(size, byte)
    /\ deviceImageA = imageA
    /\ pendingRead = NULL
    /\ switchImages = TRUE
    /\ generations = 0
    /\ generationsPerCopyEvent = batch
    /\ CPUMode = FALSE
    /\ paused = TRUE
    /\ singleGen = FALSE
    /\ readSync = TRUE
    /\ clamp = c
    /\ rules = parse(_rule).table
    /\ humanRules = _rule
    /\ deviceLost = FALSE
    /\ aborted = FALSE
    /\ spawned = live
    /\ latest = imageA
    /\ last = NoCall
    /\ pauseRun = 0
    /\ pauseSnap = NoSnap

Init ==
    \E size \in Sizes, live \in Populations, byte \in Uninitialised,
       batch \in 1 .. MaxBatch, c \in BOOLEAN :
        Setup(size, live, byte, batch, c, Life)

\* ------------------------------------------------------------ operations

\* nextGenerationCPU updating the front image in place.
nextGenerationCPUInPlace ==
    /\ IF switchImages
       THEN imageA' = step(imageA, imageA) /\ imageB' = imageB
       ELSE imageB' = step(imageB, imageB) /\ imageA' = imageA
    /\ UNCHANGED <<deviceImageA, deviceImageB>>

\* nextGenerationCPU: one step from the front image into the back image.
nextGenerationCPU ==
    /\ IF switchImages
       THEN imageB' = step(imageA, imageB) /\ imageA' = imageA
       ELSE imageA' = step(imageB, imageA) /\ imageB' = imageB
    /\ UNCHANGED <<deviceImageA, deviceImageB>>

\* nextGenerationOpenCL: a batch of getGenerationsPerCopyEvent launches. The
\* last launch writes the device image paired with the back image, which is
\* then read back into the back image.
nextGenerationOpenCL ==
    LET done == submit_steps(FrontImage, BackDeviceImage, generationsPerCopyEvent)
    IN  IF switchImages
        THEN /\ deviceImageB' = done[1]
             /\ deviceImageA' = done[2]
             /\ imageB' = done[1]
             /\ imageA' = imageA
        ELSE /\ deviceImageA' = done[1]
             /\ deviceImageB' = done[2]
             /\ imageA' = done[1]
             /\ imageB' = imageB

\* What a call of nextGeneration leaves in last.
called(ret) ==
    [NoCall EXCEPT !.op = "nextGeneration", !.ret = ret, !.front = FrontImage,
                   !.back = BackImage, !.n = getGenerationsPerCopyEvent,
                   !.cpu = CPUMode, !.single = singleGen, !.gen = generations,
                   !.sw = switchImages]

\* advance(): the active backend computes into back, then the roles swap and
\* the generation counter moves on. A batch on a lost device returns -1.
\* The call is not made once the counter would pass cap.
nextGenerationUpTo(cap) ==
    /\ ~aborted
    /\ ~paused
    /\ generations + getGenerationsPerCopyEvent <= cap
    /\ pendingRead = NULL
    /\ IF ~CPUMode /\ deviceLost
       THEN /\ last' = called(-1)
            /\ UNCHANGED gridVars
       ELSE /\ IF CPUMode THEN nextGenerationCPU ELSE nextGenerationOpenCL
            /\ switchImages' = ~switchImages
            /\ generations' = generations + getGenerationsPerCopyEvent
            /\ latest' = IF switchImages THEN imageB' ELSE imageA'
            /\ last' = called(0)
            /\ UNCHANGED <<imageSize, spawned, pendingRead>>
    /\ NotPause
    /\ UNCHANGED <<modeVars, ruleVars, faultVars>>

nextGeneration == nextGenerationUpTo(MaxGen)

\* copyFront with clEnqueueReadImage and clEnqueueWriteImage exchanged.
copyFrontReversed(toHost) ==
    IF ~toHost
    THEN /\ IF switchImages
            THEN imageA' = deviceImageA /\ imageB' = imageB
            ELSE imageB' = deviceImageB /\ imageA' = imageA
         /\ UNCHANGED <<deviceImageA, deviceImageB>>
    ELSE /\ IF switchImages
            THEN deviceImageA' = imageA /\ deviceImageB' = deviceImageB
            ELSE deviceImageB' = imageB /\ deviceImageA' = deviceImageA
         /\ UNCHANGED <<imageA, imageB>>

\* The blocking copy of switchCPUMode between the front host image and the
\* front device image: towards the host when toHost, else towards the device.
copyFront(toHost) ==
    IF toHost
    THEN /\ IF switchImages
            THEN imageA' = deviceImageA /\ imageB' = imageB
            ELSE imageB' = deviceImageB /\ imageA' = imageA
         /\ UNCHANGED <<deviceImageA, deviceImageB>>
    ELSE /\ IF switchImages
            THEN deviceImageA' = imageA /\ deviceImageB' = deviceImageB
            ELSE deviceImageB' = imageB /\ deviceImageA' = deviceImageA
         /\ UNCHANGED <<imageA, imageB>>

\* On a lost device the copy returns an error: assert(status == CL_SUCCESS)
\* ends the process, or is compiled out (NDEBUG) and nothing is copied.
\* The copy is blocking (CL_TRUE) on the in-order command queue: a read still
\* outstanding has completed when it returns.
switchCPUMode ==
    /\ ~aborted
    /\ CPUMode' = ~CPUMode
    /\ IF generations = 0
       THEN UNCHANGED <<imageA, imageB, deviceImageA, deviceImageB, pendingRead,
                        aborted>>
       ELSE IF deviceLost
       THEN /\ aborted' \in BOOLEAN
            /\ UNCHANGED <<imageA, imageB, deviceImageA, deviceImageB,
                           pendingRead>>
       ELSE /\ copyFront(CPUMode')
            /\ pendingRead' = NULL
            /\ UNCHANGED aborted
    /\ last' = NoCall
    /\ NotPause
    /\ UNCHANGED <<imageSize, switchImages, generations, spawned, latest,
                   generationsPerCopyEvent, paused, singleGen, readSync, clamp,
                   ruleVars, deviceLost>>

\* switchPause that starts the calculation and never stops it.
pauseAfterClear(p) == FALSE

pauseAfter(p) == ~p

switchPause ==
    /\ ~aborted
    /\ paused' = pauseAfter(paused)
    /\ IF pauseRun = 1
       THEN pauseRun' = 2 /\ pauseSnap' = pauseSnap
       ELSE pauseRun' = 1 /\ pauseSnap' = <<paused, singleGen, generations>>
    /\ last' = NoCall
    /\ UNCHANGED <<gridVars, generationsPerCopyEvent, CPUMode, singleGen,
                   readSync, clamp, ruleVars, faultVars>>

switchSingleGeneration ==
    /\ ~aborted
    /\ singleGen' = ~singleGen
    /\ last' = NoCall
    /\ NotPause
    /\ UNCHANGED <<gridVars, generationsPerCopyEvent, CPUMode, paused,
                   readSync, clamp, ruleVars, faultVars>>

switchreadSync ==
    /\ ~aborted
    /\ readSync' = ~readSync
    /\ last' = NoCall
    /\ NotPause
    /\ UNCHANGED <<gridVars, generationsPerCopyEvent, CPUMode, paused,
                   singleGen, clamp, ruleVars, faultVars>>

\* setRule that stores what it parsed before it looks at the outcome.
setRuleStoresFirst(_rule) ==
    /\ ~aborted
    /\ LET r == parse(_rule)
       IN  /\ rules' = r.table
           /\ humanRules' = _rule
           /\ last' = [NoCall EXCEPT !.op = "setRule",
                                     !.ret = IF r.ok THEN 0 ELSE -1]
    /\ NotPause
    /\ UNCHANGED <<gridVars, modeVars, faultVars>>

\* setRule: a malformed spec is an error and replaces nothing.
setRule(_rule) ==
    /\ ~aborted
    /\ LET r == parse(_rule)
       IN  IF r.ok
           THEN /\ rules' = r.table
                /\ humanRules' = _rule
                /\ last' = [NoCall EXCEPT !.op = "setRule", !.ret = 0]
           ELSE /\ UNCHANGED ruleVars
                /\ last' = [NoCall EXCEPT !.op = "setRule", !.ret = -1]
    /\ NotPause
    /\ UNCHANGED <<gridVars, modeVars, faultVars>>

\* advance() on the OpenCL backend while the device becomes unavailable: the
\* call throws before anything is read back, and returns -1.
nextGenerationFails ==
    /\ ~aborted
    /\ ~paused
    /\ ~CPUMode
    /\ ~deviceLost
    /\ deviceLost' = TRUE
    /\ last' = called(-1)
    /\ NotPause
    /\ UNCHANGED <<gridVars, modeVars, ruleVars, aborted>>

\* advance() on the OpenCL backend with readSync off: the read of the last
\* generation is enqueued non-blocking and the call returns with the read
\* outstanding. The command queue is in order: a read left outstanding by the
\* call before has completed before this batch uploads the front image.
nextGenerationAsync ==
    /\ ~aborted
    /\ ~paused
    /\ ~CPUMode /\ ~deviceLost
    /\ readSync = FALSE
    /\ generations + generationsPerCopyEvent <= MaxGen
    /\ LET front == IF pendingRead # NULL THEN pendingRead ELSE FrontImage
           done == submit_steps(front, BackDeviceImage, generationsPerCopyEvent)
       IN  /\ IF switchImages
              THEN /\ deviceImageB' = done[1]
                   /\ deviceImageA' = done[2]
                   /\ imageA' = front
                   /\ imageB' = imageB
              ELSE /\ deviceImageA' = done[1]
                   /\ deviceImageB' = done[2]
                   /\ imageB' = front
                   /\ imageA' = imageA
           /\ pendingRead' = done[1]
           /\ latest' = done[1]
           /\ last' = [called(0) EXCEPT !.front = front]
    /\ switchImages' = ~switchImages
    /\ generations' = generations + generationsPerCopyEvent
    /\ NotPause
    /\ UNCHANGED <<imageSize, spawned, modeVars, ruleVars, faultVars>>

\* The device finishes the outstanding read: the image arrives in the host
\* image the batch was read into, the front image since the swap.
readCompletes ==
    /\ pendingRead # NULL
    /\ IF switchImages
       THEN imageA' = pendingRead /\ imageB' = imageB
       ELSE imageB' = pendingRead /\ imageA' = imageA
    /\ pendingRead' = NULL
    /\ UNCHANGED <<imageSize, deviceImageA, deviceImageB, switchImages,
                   generations, spawned, latest, last, pauseRun, pauseSnap,
                   modeVars, ruleVars, faultVars>>

\* The caller reads the image getImage returns. While a read into that image
\* is outstanding the caller races with the transfer and sees the image
\* before it or after it.
readImage ==
    /\ ~aborted
    /\ imageA # NULL
    /\ \E seen \in (IF pendingRead # NULL /\ switchImages
                     THEN {getImage, pendingRead} ELSE {getImage}) :
          last' = [NoCall EXCEPT !.op = "getImage", !.front = seen,
                                 !.gen = generations]
    /\ NotPause
    /\ UNCHANGED <<gridVars, modeVars, ruleVars, faultVars>>

\* A probe of getNumberOfNeighbours on the front image.
countNeighbours(x, y) ==
    /\ ~aborted
    /\ last' = [NoCall EXCEPT !.op = "getNumberOfNeighbours", !.x = x, !.y = y,
                              !.n = getNumberOfNeighbours(x, y, FrontImage)]
    /\ NotPause
    /\ UNCHANGED <<gridVars, modeVars, ruleVars, faultVars>>

\* ------------------------------------------------------------ specifications

Next ==
    \/ nextGeneration
    \/ switchCPUMode
    \/ switchPause
    \/ switchSingleGeneration
    \/ switchreadSync
    \/ \E _rule \in SomeRuleSpecs : setRule(_rule)

Spec == Init /\ [][Next]_vars

\* Spec with a device that may fail while the simulation runs.
NextFail == Next \/ nextGenerationFails

SpecFail == Init /\ [][NextFail]_vars

\* Spec with the non-blocking read of readSync = CL_FALSE: an advance may
\* return before the image has arrived, and the caller reads the image.
NextAsync ==
    \/ (CPUMode \/ readSync = TRUE) /\ nextGeneration
    \/ nextGenerationAsync
    \/ readCompletes
    \/ readImage
    \/ switchCPUMode
    \/ switchPause
    \/ switchreadSync

SpecAsync == Init /\ [][NextAsync]_vars

\* Rule parsing: setRule over every string of at most MaxRuleLen characters
\* of RuleAlphabet, from each of the rule specs of SetupRuleSpecs.
RuleAlphabet == {"0", "8", "9", "/", "x"}
RuleStrings == UNION {[1 .. n -> RuleAlphabet] : n \in 0 .. MaxRuleLen}
SetupRuleSpecs ==
    {Life, <<"/">>,
     <<"0", "1", "2", "3", "4", "5", "6", "7", "8", "/",
       "0", "1", "2", "3", "4", "5", "6", "7", "8">>}

InitRule ==
    \E _rule \in SetupRuleSpecs :
        Setup(<<4, 3>>, {<<0, 0>>}, 205, 1, FALSE, _rule)

NextRule == \E _rule \in RuleStrings : setRule(_rule)

SpecRule == InitRule /\ [][NextRule]_vars

\* Neighbour counting: getNumberOfNeighbours at every cell of every board of
\* the sizes of CountSizes, under both boundary policies.
CountSizes == {<<3, 3>>, <<4, 3>>, <<2, 3>>, <<1, 2>>}

CountPopulations(size) ==
    {live \in SUBSET ((0 .. size[1] - 1) \X (0 .. size[2] - 1)) :
        size[1] * size[2] <= 9 \/ Cardinality(live) <= MaxLive}

InitCount ==
    \E size \in CountSizes, c \in BOOLEAN :
        \E live \in CountPopulations(size) :
            Setup(size, live, 205, 1, c, Life)

NextCount ==
    \E x \in 0 .. getWidth - 1, y \in 0 .. getHeight - 1 : countNeighbours(x, y)

SpecCount == InitCount /\ [][NextCount]_vars

\* Setup: the object as the constructor and the setters leave it, no image
\* allocated yet, and the one call of setup() that follows.

Constructed(size, batch, c, _rule) ==
    /\ imageSize = size
    /\ imageA = NULL
    /\ imageB = NULL
    /\ deviceImageA = NULL
    /\ deviceImageB = NULL
    /\ pendingRead = NULL
    /\ switchImages = TRUE
    /\ generations = 0
    /\ generationsPerCopyEvent = batch
    /\ CPUMode = FALSE
    /\ paused = TRUE
    /\ singleGen = FALSE
    /\ readSync = TRUE
    /\ clamp = c
    /\ rules = parse(_rule).table
    /\ humanRules = _rule
    /\ deviceLost = FALSE
    /\ aborted = FALSE
    /\ spawned = {}
    /\ latest = NULL
    /\ last = NoCall
    /\ pauseRun = 0
    /\ pauseSnap = NoSnap

\* How setup() can end: malloc returns NULL; a cl::Error is thrown before the
\* device images exist; the kernel file cannot be opened, the build throws or
\* sizeX*sizeY exceeds the kernel's work-group size, all three after the
\* device images were created.
SetupOutcomes ==
    {"ok", "mallocFailed", "clError", "noKernelFile", "buildError",
     "outOfResources"}

\* setup(): setupHost allocates the host images and spawns the population,
\* setupDevice sets up OpenCL. Every failure returns -1 and frees nothing.
setup(live, outcome) ==
    /\ imageA = NULL
    /\ last = NoCall
    /\ IF outcome = "mallocFailed"
       THEN UNCHANGED <<imageA, imageB, deviceImageA, deviceImageB, spawned,
                        latest>>
       ELSE /\ imageA' = spawnCells(0, live, rawImage(imageSize, 205))
            /\ imageB' = rawImage(imageSize, 205)
            /\ spawned' = live
            /\ latest' = imageA'
            /\ IF outcome = "clError"
               THEN UNCHANGED <<deviceImageA, deviceImageB>>
               ELSE /\ deviceImageA' = imageA'
                    /\ deviceImageB' = rawImage(imageSize, 205)
    /\ deviceLost' = (outcome \notin {"ok", "mallocFailed"})
    /\ last' = [NoCall EXCEPT !.op = "setup",
                              !.ret = IF outcome = "ok" THEN 0 ELSE -1]
    /\ NotPause
    /\ UNCHANGED <<imageSize, pendingRead, switchImages, generations, modeVars,
                   ruleVars, aborted>>

InitSetup ==
    \E size \in {<<3, 3>>, <<2, 3>>}, batch \in 1 .. MaxBatch, c \in BOOLEAN :
        Constructed(size, batch, c, Life)

NextSetup ==
    \E live \in CountPopulations(imageSize), outcome \in SetupOutcomes :
        setup(live, outcome)

SpecSetup == InitSetup /\ [][NextSetup]_vars

\* The glider scenario: the standard 5-cell glider placed on a WRAP board, rule "23/3", advanced on either backend up to MaxGliderGen.
GliderShape == {<<1, 0>>, <<2, 1>>, <<0, 2>>, <<1, 2>>, <<2, 2>>}
GliderSizes == {<<5, 5>>, <<6, 5>>}

\* The cells of a set, moved by <<dx, dy>> on the torus of the given size.
Translated(cells, dx, dy, size) ==
    {<<(c[1] + dx) % size[1], (c[2] + dy) % size[2]>> : c \in cells}

\* Where the glider is placed: clear of the edges, and across the right, the
\* bottom and both edges.
GliderOffsets(size) ==
    {0, size[1] - 2, size[1] - 1} \X {0, size[2] - 2}

InitGlider ==
    \E size \in GliderSizes, batch \in 1 .. MaxBatch :
        \E o \in GliderOffsets(size) :
            Setup(size, Translated(GliderShape, o[1], o[2], size), 205, batch,
                  FALSE, Life)

NextGlider ==
    \/ nextGenerationUpTo(MaxGliderGen)
    \/ switchCPUMode
    \/ switchPause

SpecGlider == InitGlider /\ [][NextGlider]_vars

\* ------------------------------------------------------------ properties

\* n sequential steps from front, the two host buffers exchanged after each.
RECURSIVE seqSteps(_, _, _)
seqSteps(front, back, n) ==
    IF n = 0 THEN front ELSE seqSteps(step(front, back), front, n - 1)

Advanced == last.op = "nextGeneration" /\ last.ret = 0

C2_FrontUntouched ==
    (Advanced /\ last.cpu) => BackImage = last.front

C2_Witness ==
    /\ Advanced /\ last.cpu
    /\ FrontImage # last.front
    /\ FrontImage = step(last.front, last.back)

\* C3: whatever advances and backend switches came before, the front image of
\* the representation the active backend uses holds the most recently
\* computed generation: the host image on either backend, and the device
\* image too while the OpenCL backend is active.
C3_FrontIsLatest ==
    /\ FrontImage = latest
    /\ ~CPUMode => FrontDeviceImage = latest

\* A generation computed on the CPU (the batch count is 2, the counter 1),
\* then a switch to OpenCL.
C3_Witness ==
    /\ generationsPerCopyEvent = 2 /\ generations = 1 /\ ~CPUMode
    /\ FrontDeviceImage = latest
    /\ latest # BackImage

\* C4: two switchPause calls in a row leave paused, the single-generation mode
\* and the generation counter as they were before the first.
C4_PauseTwice ==
    pauseRun = 2 => <<isPaused, isSingleGeneration, getGenerations>> = pauseSnap

C4_Witness ==
    pauseRun = 2 /\ singleGen /\ ~paused /\ generations > 0 /\ isCPUMode

C6_FailureRecoverable ==
    /\ (last.op = "nextGeneration" /\ last.ret = -1) =>
          /\ FrontImage = last.front
          /\ switchImages = last.sw
          /\ generations = last.gen
    /\ (deviceLost /\ CPUMode) => (~aborted /\ FrontImage = latest)

\* C7: the image the query surface returns is the front buffer, the most
\* recently completed generation.
C7_ImageIsFront ==
    getImage = FrontImage /\ getImage = latest

\* A rule spec is well formed: one separator, every other character a digit
\* 0..8.
WellFormed(s) ==
    /\ Cardinality({i \in 1 .. Len(s) : s[i] = "/"}) = 1
    /\ \A i \in 1 .. Len(s) :
          s[i] \in {"/", "0", "1", "2", "3", "4", "5", "6", "7", "8"}

LiveCells ==
    {c \in (0 .. getWidth - 1) \X (0 .. getHeight - 1) :
        CellAt(c[1], c[2], FrontImage) # DEAD}

\* C10: under WRAP the count at (x, y) is the number of the 8 offsets whose
\* cell, coordinates modulo W and H, is nonzero; it lies in 0..8; on a 3x3
\* board whose only live cell is (0,0) it is 1 at the 8 other cells and 0 at
\* (0,0).
C10_WrapCount ==
    (last.op = "getNumberOfNeighbours" /\ ~clamp) =>
        /\ last.n = Cardinality({d \in Offsets :
                        CellAt((last.x + d[1]) % getWidth,
                               (last.y + d[2]) % getHeight, FrontImage) # DEAD})
        /\ last.n \in 0 .. 8
        /\ (imageSize = <<3, 3>> /\ LiveCells = {<<0, 0>>}) =>
              last.n = IF last.x = 0 /\ last.y = 0 THEN 0 ELSE 1

C10_Witness ==
    /\ last.op = "getNumberOfNeighbours" /\ ~clamp
    /\ imageSize = <<3, 3>> /\ LiveCells = {<<0, 0>>}
    /\ last.x = 2 /\ last.y = 2 /\ last.n = 1

\* The cells of the board next to (x, y) that lie inside [0,W) x [0,H).
InsideNeighbours(x, y) ==
    {c \in (0 .. getWidth - 1) \X (0 .. getHeight - 1) :
        /\ c # <<x, y>>
        /\ c[1] - x \in -1 .. 1
        /\ c[2] - y \in -1 .. 1}

IsCorner(x, y) == x \in {0, getWidth - 1} /\ y \in {0, getHeight - 1}

C12_Glider ==
    generations = 4 =>
        /\ LiveCells = Translated(spawned, 1, 1, imageSize)
        /\ \A c \in (0 .. getWidth - 1) \X (0 .. getHeight - 1) :
              c \notin Translated(spawned, 1, 1, imageSize) =>
                  CellAt(c[1], c[2], FrontImage) = DEAD

\* A glider spawned across the edge of the 6x5 board, after one generation on
\* the CPU, a batch of two on OpenCL and a last one on the CPU.
C12_Witness ==
    /\ generations = 4 /\ imageSize = <<6, 5>> /\ generationsPerCopyEvent = 2
    /\ spawned = Translated(GliderShape, 4, 3, imageSize)
    /\ CPUMode /\ Advanced
    /\ LiveCells = Translated(GliderShape, 5, 4, imageSize)

\* C13: a setup() that returns failure leaves no grid state behind: no host
\* image and no device image remains allocated.
C13_NoPartialState ==
    (last.op = "setup" /\ last.ret = -1) =>
        /\ imageA = NULL /\ imageB = NULL
        /\ deviceImageA = NULL /\ deviceImageB = NULL

\* A step of the behaviour in which nextGeneration completed.
AdvanceStep == last' # last /\ last'.op = "nextGeneration" /\ last'.ret = 0

LiveNeighbours(x, y, image) ==
    Cardinality({d \in Offsets :
        IF clamp
        THEN /\ x + d[1] \in 0 .. getWidth - 1
             /\ y + d[2] \in 0 .. getHeight - 1
             /\ CellAt(x + d[1], y + d[2], image) # DEAD
        ELSE CellAt((x + d[1]) % getWidth, (y + d[2]) % getHeight, image) # DEAD})

\* The cells i, i-1, ..., 0 of back in reverse row-major order.
RECURSIVE cellsBackwards(_, _, _)
cellsBackwards(i, front, back) ==
    IF i < 0 THEN back
    ELSE LET x == i % getWidth
             y == i \div getWidth
         IN  cellsBackwards(i - 1, front,
                 setState(x, y, apply(getState(x, y, front),
                                      getNumberOfNeighbours(x, y, front)), back))

C19_CanonicalCells ==
    /\ \A x \in 0 .. getWidth - 1, y \in 0 .. getHeight - 1 :
          CellAt(x, y, FrontImage) \in {ALIVE, DEAD}
    /\ \A x \in 0 .. getWidth - 1, y \in 0 .. getHeight - 1 :
          getNumberOfNeighbours(x, y, FrontImage) = LiveNeighbours(x, y, FrontImage)

=============================================================================
